---- MODULE Spec2Model ----
(***************************************************************************)
(* shotsegments: shot boundary detection over a frame stream, and the      *)
(* report of the segments between the boundaries (src/main.cpp).           *)
(*                                                                         *)
(* A frame is represented by its luminance plane, a sequence of NumPixels  *)
(* pixel values; a frame rate is the exact fraction <<num, den>>; a string *)
(* is a sequence of one-character strings.                                 *)
(***************************************************************************)
EXTENDS Integers, Sequences, FiniteSets, TLC

\* ------------------------------------------------------------------ bounds
MaxFrames == 4
NumPixels == 2
MaxWriteFailures == 1
MaxTsStart == 150
MaxTsLen == 180
MaxSfSegment == 12

\* --------------------------------------------------------- program constants
DefaultThreshold == 50
DefaultMinDuration == 1000
TS_INPUT == 0
TS_OUTPUT == 1
TS_DURATION == 2

\* ------------------------------------------------------------ input domains
PixelVals == {0, 255}
\* the frames a video is drawn from: the planes with non-decreasing pixels
Frames == {f \in [1..NumPixels -> PixelVals] :
             \A p \in 1..(NumPixels - 1) : f[p] <= f[p + 1]}
Thresholds == {DefaultThreshold, 150}
MinDurations == {-1, 1, 2}
\* 1/32 frame per second (time lapse); the other rates are in TsFpsSet
FpsSet == {<<1, 32>>}
TsFpsSet == {<<1, 32>>, <<1, 2>>, <<25, 1>>, <<30, 1>>}
ClipMp4 == <<"c", "l", "i", "p", ".", "m", "p", "4">>
InputFiles == {ClipMp4}
\* file names with at least one '.'
SfFiles == {ClipMp4, <<"a", ".", "b", ".", "c">>, <<".", "x">>, <<"x", ".">>,
            <<"m", "-", "1", ".", "t", "s">>}

VARIABLES pc, inputFile, saveImages, ffmpeg, threshold, minDuration, fps,
          stream, previous, previousColor, lastScore, frame, markers, scores,
          numPixels, exports, lost, segment, i, output, exitCode,
          tsStart, tsEnd, tsFps, tsLine

mainVars == <<pc, inputFile, saveImages, ffmpeg, threshold, minDuration, fps,
              stream, previous, previousColor, lastScore, frame, markers,
              scores, numPixels, exports, lost, segment, i, output,
              exitCode>>
tsVars == <<tsStart, tsEnd, tsFps, tsLine>>
vars == <<mainVars, tsVars>>

\* ------------------------------------------------------------ pure functions
RECURSIVE SumSeq(_)
SumSeq(s) == IF s = <<>> THEN 0 ELSE Head(s) + SumSeq(Tail(s))

Abs(x) == IF x < 0 THEN -x ELSE x

\* cv::absdiff(current, previous, diffs)
absdiff(a, b) == [p \in 1..Len(a) |-> Abs(a[p] - b[p])]

\* int score = cv::sum(diffs)[0] / numPixels
ScoreRounded(current, prev, n) ==
    (2 * SumSeq(absdiff(current, prev)) + n) \div (2 * n)
Score(current, prev, n) == SumSeq(absdiff(current, prev)) \div n

\* score > threshold && scoreDiff > threshold
IsCutNoDelta(score, last, thr) == score > thr
IsCut(score, last, thr) == score > thr /\ Abs(score - last) > thr

Digit == <<"0", "1", "2", "3", "4", "5", "6", "7", "8", "9">>

\* operator<<(int) for a non-negative value
RECURSIVE DigitsOf(_)
DigitsOf(n) == IF n < 10 THEN <<Digit[n + 1]>>
               ELSE Append(DigitsOf(n \div 10), Digit[(n % 10) + 1])

\* std::setfill('0') << std::setw(w) << n
RECURSIVE PadTo(_, _)
PadTo(s, w) == IF Len(s) < w THEN PadTo(<<"0">> \o s, w) ELSE s

SetW2(n) == PadTo(DigitsOf(n), 2)

\* int totalSeconds = frame / fps, for frame >= 0 and fps = num/den > 0
TotalSeconds(f, rate) == (f * rate[2]) \div rate[1]

AdjustSecondsNoFloor(total, mode) ==
    CASE mode = TS_INPUT -> total
      [] mode = TS_OUTPUT -> total % 60
      [] mode = TS_DURATION -> total + 1
      [] OTHER -> total

AdjustSecondsMinutes(total, mode) ==
    CASE mode = TS_INPUT -> total - (total % 60)
      [] mode = TS_OUTPUT -> (total \div 60) % 60
      [] mode = TS_DURATION -> total + 1
      [] OTHER -> total

AdjustSeconds(total, mode) ==
    CASE mode = TS_INPUT -> total - (total % 60)
      [] mode = TS_OUTPUT -> total % 60
      [] mode = TS_DURATION -> total + 1
      [] OTHER -> total

timespecNoMod(f, rate, mode) ==
    LET totalSeconds == AdjustSeconds(TotalSeconds(f, rate), mode)
        hours == (totalSeconds \div 60) \div 60
        minutes == totalSeconds \div 60
        seconds == totalSeconds % 60
    IN SetW2(hours) \o <<":">> \o SetW2(minutes) \o <<":">> \o SetW2(seconds)

timespec(f, rate, mode) ==
    LET totalSeconds == AdjustSeconds(TotalSeconds(f, rate), mode)
        hours == (totalSeconds \div 60) \div 60
        minutes == (totalSeconds \div 60) % 60
        seconds == totalSeconds % 60
    IN SetW2(hours) \o <<":">> \o SetW2(minutes) \o <<":">> \o SetW2(seconds)

\* basis.rfind('.'): the 0-based position of the last '.', or -1 (npos)
rfindFirst(basis) ==
    LET dots == {p \in 1..Len(basis) : basis[p] = "."}
    IN IF dots = {} THEN -1
       ELSE (CHOOSE p \in dots : \A q \in dots : p <= q) - 1

rfind(basis) ==
    LET dots == {p \in 1..Len(basis) : basis[p] = "."}
    IN IF dots = {} THEN -1
       ELSE (CHOOSE p \in dots : \A q \in dots : q <= p) - 1

\* basis.substr(0, pos) << "-" << segment << basis.substr(pos), '.' present
segmentfile(basis, seg) ==
    LET pos == rfind(basis)
    IN SubSeq(basis, 1, pos) \o <<"-">> \o DigitsOf(seg)
         \o SubSeq(basis, pos + 1, Len(basis))

\* the ffmpeg command line of one segment
FfmpegLineEnd(file, start, end, rate, seg) ==
    [kind |-> "ffmpeg",
     ssIn |-> timespec(start, rate, TS_INPUT),
     input |-> file,
     ssOut |-> timespec(start, rate, TS_OUTPUT),
     t |-> timespec(end, rate, TS_DURATION),
     file |-> segmentfile(file, seg)]

FfmpegLine(file, start, end, rate, seg) ==
    [kind |-> "ffmpeg",
     ssIn |-> timespec(start, rate, TS_INPUT),
     input |-> file,
     ssOut |-> timespec(start, rate, TS_OUTPUT),
     t |-> timespec(end - start, rate, TS_DURATION),
     file |-> segmentfile(file, seg)]

\* segment << ": " << markers[i - 1] << " - " << markers[i]
PlainLine(seg, start, end) ==
    [kind |-> "plain", segment |-> seg, start |-> start, end |-> end]

\* markers.push_back(frame) on a detected cut
CutMarkerPrevious(fr) == fr - 1
CutMarker(fr) == fr

\* frame++
NextFrameStuck(fr) == fr
NextFrame(fr) == fr + 1

\* markers.push_back(frame - 1) after the loop
ClosingMarkerNext(fr) == fr
ClosingMarker(fr) == fr - 1

\* if (len >= minDuration)
KeepsLonger(len, d) == len > d
KeepsOneShorter(len, d) == len >= d - 1
Keeps(len, d) == len >= d

\* segment++ inside the if
SegmentAfterAlways(seg, len, d) == seg + 1
SegmentAfter(seg, len, d) == IF Keeps(len, d) THEN seg + 1 ELSE seg

\* save(frame, image, suffix): the file name and the image handed to imwrite
SaveName(f, suffix) ==
    PadTo(DigitsOf(f), 8) \o <<"-">> \o suffix \o <<".", "j", "p", "g">>
In == <<"i", "n">>
Out == <<"o", "u", "t">>
save(f, image, suffix) ==
    [name |-> SaveName(f, suffix), frame |-> f, suffix |-> suffix,
     image |-> image]

\* the two images of a detected cut: the tail of the closing segment and the
\* head of the new one
CutExportsCurrent(fr, prevImage, curImage) ==
    <<save(fr, prevImage, Out), save(fr, curImage, In)>>
CutExports(fr, prevImage, curImage) ==
    <<save(fr - 1, prevImage, Out), save(fr, curImage, In)>>

\* cv::imwrite may fail on any of n calls; its result is ignored
Lost(n) == {l \in lost..(lost + n) : l <= MaxWriteFailures}

\* ------------------------------------------------------------- initial state
TsIdle == tsStart = 0 /\ tsEnd = 0 /\ tsFps = <<1, 1>> /\ tsLine = <<>>

Fresh ==
    /\ stream = <<>>
    /\ previous = <<>>
    /\ previousColor = <<>>
    /\ lastScore = 0
    /\ frame = 1
    /\ markers = <<>>
    /\ scores = <<>>
    /\ numPixels = 0
    /\ exports = <<>>
    /\ lost = 0
    /\ segment = 0
    /\ i = 1
    /\ output = <<>>
    /\ exitCode = -1

\* the options are parsed and name an input file
Init ==
    /\ pc = "open"
    /\ inputFile \in InputFiles
    /\ saveImages \in BOOLEAN
    /\ ffmpeg \in BOOLEAN
    /\ threshold \in Thresholds
    /\ minDuration \in MinDurations
    /\ fps \in FpsSet
    /\ Fresh
    /\ TsIdle

config == <<inputFile, saveImages, ffmpeg, threshold, minDuration, fps>>

\* ------------------------------------------------------------------ actions
\* video.open(inputFile) fails
OpenFail ==
    /\ pc = "open"
    /\ pc' = "done"
    /\ exitCode' = 1
    /\ UNCHANGED <<config, stream, previous, previousColor, lastScore, frame,
                   markers, scores, numPixels, exports, lost, segment, i,
                   output, tsVars>>

OpenOk ==
    /\ pc = "open"
    /\ pc' = "first"
    /\ UNCHANGED <<config, stream, previous, previousColor, lastScore, frame,
                   markers, scores, numPixels, exports, lost, segment, i,
                   output, exitCode, tsVars>>

\* !video.read(previousColor): "need some frames"
NoFrames ==
    /\ pc = "first"
    /\ pc' = "done"
    /\ exitCode' = 1
    /\ UNCHANGED <<config, stream, previous, previousColor, lastScore, frame,
                   markers, scores, numPixels, exports, lost, segment, i,
                   output, tsVars>>

\* the first frame is read
FirstFrame ==
    /\ pc = "first"
    /\ \E f \in Frames :
         /\ stream' = Append(stream, f)
         /\ previousColor' = f
         /\ previous' = f
         /\ numPixels' = Len(f)
         /\ markers' = Append(markers, 0)
         /\ IF saveImages
            THEN /\ exports' = Append(exports, save(0, f, In))
                 /\ lost' \in Lost(1)
            ELSE UNCHANGED <<exports, lost>>
    /\ pc' = "scan"
    /\ UNCHANGED <<config, lastScore, frame, scores, segment, i, output,
                   exitCode, tsVars>>

\* one iteration of while (video.read(currentColor))
ScanFrameSaveOnly ==
    /\ pc = "scan"
    /\ Len(stream) < MaxFrames
    /\ \E current \in Frames :
         LET score == Score(current, previous, numPixels)
         IN /\ stream' = Append(stream, current)
            /\ scores' = Append(scores, score)
            /\ IF IsCut(score, lastScore, threshold) /\ saveImages
               THEN /\ markers' = Append(markers, CutMarker(frame))
                    /\ exports' = exports \o
                         CutExports(frame, previousColor, current)
                    /\ lost' \in Lost(2)
               ELSE UNCHANGED <<markers, exports, lost>>
            /\ lastScore' = score
            /\ previous' = current
            /\ previousColor' = current
    /\ frame' = NextFrame(frame)
    /\ UNCHANGED <<pc, config, numPixels, segment, i, output, exitCode,
                   tsVars>>

ScanFrame ==
    /\ pc = "scan"
    /\ Len(stream) < MaxFrames
    /\ \E current \in Frames :
         LET score == Score(current, previous, numPixels)
         IN /\ stream' = Append(stream, current)
            /\ scores' = Append(scores, score)
            /\ IF IsCut(score, lastScore, threshold)
               THEN /\ markers' = Append(markers, CutMarker(frame))
                    /\ IF saveImages
                       THEN /\ exports' = exports \o
                                 CutExports(frame, previousColor, current)
                            /\ lost' \in Lost(2)
                       ELSE UNCHANGED <<exports, lost>>
               ELSE UNCHANGED <<markers, exports, lost>>
            /\ lastScore' = score
            /\ previous' = current
            /\ previousColor' = current
    /\ frame' = NextFrame(frame)
    /\ UNCHANGED <<pc, config, numPixels, segment, i, output, exitCode,
                   tsVars>>

\* video.read fails: the closing marker, then the report loop starts
ScanEnd ==
    /\ pc = "scan"
    /\ markers' = Append(markers, ClosingMarker(frame))
    /\ IF saveImages
       THEN /\ exports' = Append(exports, save(frame - 1, previousColor, Out))
            /\ lost' \in Lost(1)
       ELSE UNCHANGED <<exports, lost>>
    /\ segment' = 0
    /\ i' = 1
    /\ pc' = "report"
    /\ UNCHANGED <<config, stream, previous, previousColor, lastScore, frame,
                   scores, numPixels, output, exitCode, tsVars>>

\* one iteration of for (i = 1; i < markers.size(); i++)
\* (markers[i] of the code is markers[i + 1] here)
ReportStep ==
    /\ pc = "report"
    /\ i < Len(markers)
    /\ LET len == markers[i + 1] - markers[i]
           start == markers[i]
           end == markers[i + 1]
       IN /\ segment' = SegmentAfter(segment, len, minDuration)
          /\ output' =
               IF Keeps(len, minDuration)
               THEN Append(output,
                      IF ffmpeg
                      THEN FfmpegLine(inputFile, start, end, fps, segment')
                      ELSE PlainLine(segment', start, end))
               ELSE output
    /\ i' = i + 1
    /\ UNCHANGED <<pc, config, stream, previous, previousColor, lastScore,
                   frame, markers, scores, numPixels, exports, lost, exitCode,
                   tsVars>>

\* the loop ends: return 0
ReportEnd ==
    /\ pc = "report"
    /\ i >= Len(markers)
    /\ pc' = "done"
    /\ exitCode' = 0
    /\ UNCHANGED <<config, stream, previous, previousColor, lastScore, frame,
                   markers, scores, numPixels, exports, lost, segment, i,
                   output, tsVars>>

Next ==
    \/ OpenFail
    \/ OpenOk
    \/ NoFrames
    \/ FirstFrame
    \/ ScanFrame
    \/ ScanEnd
    \/ ReportStep
    \/ ReportEnd

Spec == Init /\ [][Next]_vars

\* the run is one sequential thread: it takes its next step whenever it has
\* one; the scan is followed with plain output and a minimum duration of 1
InitFair == Init /\ ~ffmpeg /\ minDuration = 1
SpecFair == InitFair /\ [][Next]_vars /\ WF_vars(Next)

\* ------------------------------------------- the timecodes of one segment
\* a segment [tsStart, tsEnd] of a video of rate tsFps, before its command
\* line is formatted
InitTS ==
    /\ pc = "timespec"
    /\ inputFile = ClipMp4
    /\ saveImages = FALSE
    /\ ffmpeg = TRUE
    /\ threshold = DefaultThreshold
    /\ minDuration = DefaultMinDuration
    /\ fps = <<1, 1>>
    /\ Fresh
    /\ tsStart \in 0..MaxTsStart
    /\ \E len \in 0..MaxTsLen : tsEnd = tsStart + len
    /\ tsFps \in TsFpsSet
    /\ tsLine = <<>>

\* the command line of the segment, as the report loop formats it
TsFormat ==
    /\ tsLine = <<>>
    /\ tsLine' = <<FfmpegLine(inputFile, tsStart, tsEnd, tsFps, 1)>>
    /\ UNCHANGED <<mainVars, tsStart, tsEnd, tsFps>>

NextTS == TsFormat

SpecTS == InitTS /\ [][NextTS]_vars

\* --------------------------------------- the output file name of a segment
\* an input file name with a '.' and a segment number, before segmentfile
InitSF ==
    /\ pc = "segmentfile"
    /\ inputFile \in SfFiles
    /\ saveImages = FALSE
    /\ ffmpeg = TRUE
    /\ threshold = DefaultThreshold
    /\ minDuration = DefaultMinDuration
    /\ fps = <<1, 1>>
    /\ stream = <<>>
    /\ previous = <<>>
    /\ previousColor = <<>>
    /\ lastScore = 0
    /\ frame = 1
    /\ markers = <<>>
    /\ scores = <<>>
    /\ numPixels = 0
    /\ exports = <<>>
    /\ lost = 0
    /\ segment \in 1..MaxSfSegment
    /\ i = 1
    /\ output = <<>>
    /\ exitCode = -1
    /\ TsIdle

\* segmentfile(inputFile, segment)
SfCall ==
    /\ pc = "segmentfile"
    /\ output = <<>>
    /\ output' = <<segmentfile(inputFile, segment)>>
    /\ UNCHANGED <<pc, config, stream, previous, previousColor, lastScore,
                   frame, markers, scores, numPixels, exports, lost, segment,
                   i, exitCode, tsVars>>

NextSF == SfCall

SpecSF == InitSF /\ [][NextSF]_vars

\* ---------------------------------------------------- reading the outputs
Scanned == pc \in {"report", "done"} /\ stream # <<>>

DigitVal(c) == CHOOSE d \in 0..9 : Digit[d + 1] = c

RECURSIVE NumVal(_)
NumVal(s) == IF s = <<>> THEN 0
             ELSE 10 * NumVal(SubSeq(s, 1, Len(s) - 1)) + DigitVal(s[Len(s)])

\* the three fields of "H..H:MM:SS"
TcSeconds(tc) == SubSeq(tc, Len(tc) - 1, Len(tc))
TcMinutes(tc) == SubSeq(tc, Len(tc) - 4, Len(tc) - 3)
TcHours(tc) == SubSeq(tc, 1, Len(tc) - 6)
TcWellFormed(tc) ==
    /\ Len(tc) >= 8
    /\ tc[Len(tc) - 2] = ":"
    /\ tc[Len(tc) - 5] = ":"
    /\ \A k \in (1..Len(tc)) \ {Len(tc) - 2, Len(tc) - 5} :
          \E d \in 0..9 : tc[k] = Digit[d + 1]
TcValue(tc) ==
    3600 * NumVal(TcHours(tc)) + 60 * NumVal(TcMinutes(tc))
      + NumVal(TcSeconds(tc))

\* q = floor(f / rate) for rate = num/den
IsFloorOf(q, f, rate) ==
    q * rate[1] <= f * rate[2] /\ f * rate[2] < (q + 1) * rate[1]

\* the frame indices the scan detected as cuts, from the scores it computed
PrevScoreAt(f) == IF f = 1 THEN 0 ELSE scores[f - 1]
CutAt(f) ==
    scores[f] > threshold /\ Abs(scores[f] - PrevScoreAt(f)) > threshold
Occurrences(m, x) == Cardinality({k \in 1..Len(m) : m[k] = x})

\* the pairs (markers[k], markers[k + 1]), k < upto, of length >= d, in order
RECURSIVE SurvivingPairs(_, _, _)
SurvivingPairs(m, d, upto) ==
    IF upto <= 1 THEN <<>>
    ELSE LET rest == SurvivingPairs(m, d, upto - 1)
         IN IF m[upto] - m[upto - 1] >= d
            THEN Append(rest, upto - 1)
            ELSE rest

\* the segment number a line carries
LastPos(s, c) == CHOOSE q \in 1..Len(s) :
                   s[q] = c /\ \A r \in (q + 1)..Len(s) : s[r] # c
LineNumber(line) ==
    IF line.kind = "plain" THEN line.segment
    ELSE NumVal(SubSeq(line.file, LastPos(line.file, "-") + 1,
                       LastPos(line.file, ".") - 1))

\* ------------------------------------------------------------------ claims
\* C1: a stream that yields fewer than 2 frames ends the run with exit code
\* 1, without any scoring step and without any output line.
C1_ShortStreamFails ==
    (pc = "done" /\ Len(stream) < 2)
      => (exitCode = 1 /\ scores = <<>> /\ output = <<>>)

\* C2: after the scan of a stream of at least 2 frames, markers has length
\* at least 2 and is strictly increasing.
C2_StrictlyIncreasing ==
    (Scanned /\ Len(stream) >= 2)
      => /\ Len(markers) >= 2
         /\ \A k \in 1..(Len(markers) - 1) : markers[k] < markers[k + 1]

\* C3: after the scan of a stream of N >= 2 frames the first marker is 0 and
\* the last marker is N - 1.
C3_Sentinels ==
    (Scanned /\ Len(stream) >= 2)
      => /\ markers[1] = 0
         /\ markers[Len(markers)] = Len(stream) - 1
C3_Witness ==
    /\ pc = "done"
    /\ Len(stream) = 3
    /\ CutAt(2)
    /\ markers[Len(markers)] = 2

\* C4: after the scan every detected cut frame occurs in markers exactly
\* once, the cuts are in the order encountered, and no frame index occurs in
\* markers more than once.
C4_EachCutOnce ==
    (Scanned /\ Len(stream) >= 2)
      => /\ \A f \in 1..Len(scores) : CutAt(f) => Occurrences(markers, f) = 1
         /\ \A f \in 0..Len(scores) : Occurrences(markers, f) <= 1
         /\ \A k \in 1..(Len(markers) - 1) : markers[k] <= markers[k + 1]

\* C5: frame f >= 1 is appended to markers as a cut exactly when its score
\* and the distance of its score to the previous frame's score (0 for f = 1)
\* both exceed the threshold; the previous score is updated on every frame.
C5_CutIff ==
    (pc \in {"scan", "report", "done"} /\ stream # <<>>)
      => LET cuts == IF pc = "scan" THEN Tail(markers)
                     ELSE SubSeq(markers, 2, Len(markers) - 1)
         IN /\ Len(scores) = Len(stream) - 1
            /\ \A f \in 1..Len(scores) :
                  (\E k \in 1..Len(cuts) : cuts[k] = f) <=> CutAt(f)
            /\ \A k \in 1..Len(cuts) : cuts[k] \in 1..Len(scores)
            /\ lastScore = IF scores = <<>> THEN 0 ELSE scores[Len(scores)]
C5_Witness ==
    /\ pc = "scan"
    /\ Len(scores) >= 3
    /\ CutAt(1)
    /\ scores[2] > threshold /\ ~CutAt(2)
    /\ CutAt(3)

\* C6: the pair (markers[i-1], markers[i]) is reported exactly when
\* markers[i] - markers[i-1] >= minDuration; the reported lines are in marker
\* order and carry the start and end of their pair.
C6_ReportedIff ==
    (Scanned /\ (pc = "done" => exitCode = 0))
      => LET kept == SurvivingPairs(markers, minDuration, i)
         IN /\ Len(output) = Len(kept)
            /\ \A j \in 1..Len(kept) :
                  LET start == markers[kept[j]]
                      end == markers[kept[j] + 1]
                  IN IF ffmpeg
                     THEN /\ output[j].kind = "ffmpeg"
                          /\ output[j].ssIn = timespec(start, fps, TS_INPUT)
                          /\ output[j].ssOut = timespec(start, fps, TS_OUTPUT)
                          /\ output[j].t =
                               timespec(end - start, fps, TS_DURATION)
                     ELSE /\ output[j].kind = "plain"
                          /\ output[j].start = start
                          /\ output[j].end = end
            /\ (pc = "done" => i = Len(markers))
C6_Witness ==
    /\ pc = "done"
    /\ exitCode = 0
    /\ Len(markers) = 4
    /\ Len(output) = 2
    /\ \E k \in 1..3 : markers[k + 1] - markers[k] = minDuration
    /\ \E k \in 1..3 : markers[k + 1] - markers[k] < minDuration
C6_WitnessNothing ==
    /\ pc = "done"
    /\ exitCode = 0
    /\ Len(markers) >= 3
    /\ output = <<>>

\* C7: the k-th reported line carries segment number k: the numbers are
\* 1..m without a gap, whatever was dropped.
C7_Numbering ==
    Scanned
      => /\ segment = Len(output)
         /\ \A k \in 1..Len(output) : LineNumber(output[k]) = k
C7_Witness ==
    /\ pc = "done"
    /\ Len(markers) >= 3
    /\ markers[2] - markers[1] < minDuration
    /\ markers[3] - markers[2] >= minDuration
    /\ Len(output) >= 1

\* C8: the seek timecode has seconds 00 and its value is floor(start / fps)
\* rounded down to a multiple of 60.
C8_SeekMinuteAligned ==
    tsLine # <<>>
      => LET tc == tsLine[1].ssIn
             v == TcValue(tc)
         IN /\ TcWellFormed(tc)
            /\ TcSeconds(tc) = <<"0", "0">>
            /\ v % 60 = 0
            /\ v * tsFps[1] <= tsStart * tsFps[2]
            /\ tsStart * tsFps[2] < (v + 60) * tsFps[1]
C8_Witness ==
    /\ tsLine # <<>>
    /\ TcValue(tsLine[1].ssIn) >= 3600
    /\ TcValue(tsLine[1].ssOut) > 0

\* C9: the offset timecode is in 0..59 and, added to the seek timecode
\* (60 * floor(start_seconds / 60)), gives floor(start_seconds).
C9_SeekPlusOffset ==
    tsLine # <<>>
      => LET seek == TcValue(tsLine[1].ssIn)
             offset == TcValue(tsLine[1].ssOut)
         IN /\ TcWellFormed(tsLine[1].ssOut)
            /\ offset \in 0..59
            /\ seek % 60 = 0
            /\ IsFloorOf(seek + offset, tsStart, tsFps)
C9_Witness ==
    /\ tsLine # <<>>
    /\ TcValue(tsLine[1].ssIn) >= 60
    /\ TcValue(tsLine[1].ssOut) >= 30

\* C10: the duration timecode is floor((end - start) / fps) + 1 seconds; at
\* 30 fps the segment 150..330 gets seek 00:00:00, offset 00:00:05 and
\* duration 00:00:07.
C10_Duration ==
    tsLine # <<>>
      => /\ TcWellFormed(tsLine[1].t)
         /\ IsFloorOf(TcValue(tsLine[1].t) - 1, tsEnd - tsStart, tsFps)
         /\ (tsStart = 150 /\ tsEnd = 330 /\ tsFps = <<30, 1>>)
              => /\ tsLine[1].ssIn = <<"0", "0", ":", "0", "0", ":", "0", "0">>
                 /\ tsLine[1].ssOut = <<"0", "0", ":", "0", "0", ":", "0", "5">>
                 /\ tsLine[1].t = <<"0", "0", ":", "0", "0", ":", "0", "7">>
C10_Witness ==
    /\ tsLine # <<>>
    /\ tsStart = 150
    /\ tsEnd = 330
    /\ tsFps = <<30, 1>>

\* C11: the HH:MM:SS string of a total-seconds value parses back to that
\* value; minutes and seconds are two digits in 0..59 and the hours have at
\* least two digits.
TcRoundTrip(tc, total) ==
    /\ TcWellFormed(tc)
    /\ Len(TcHours(tc)) >= 2
    /\ NumVal(TcMinutes(tc)) \in 0..59
    /\ NumVal(TcSeconds(tc)) \in 0..59
    /\ TcValue(tc) = total
C11_RoundTrip ==
    tsLine # <<>>
      => /\ TcRoundTrip(tsLine[1].ssIn,
              AdjustSeconds(TotalSeconds(tsStart, tsFps), TS_INPUT))
         /\ TcRoundTrip(tsLine[1].ssOut,
              AdjustSeconds(TotalSeconds(tsStart, tsFps), TS_OUTPUT))
         /\ TcRoundTrip(tsLine[1].t,
              AdjustSeconds(TotalSeconds(tsEnd - tsStart, tsFps), TS_DURATION))
C11_Witness ==
    /\ tsLine # <<>>
    /\ NumVal(TcHours(tsLine[1].t)) >= 1
    /\ NumVal(TcMinutes(tsLine[1].t)) >= 10
    /\ NumVal(TcSeconds(tsLine[1].t)) \in 1..9

\* C12: the score of a frame is the sum of the absolute pixel differences to
\* its predecessor divided by the pixel count, truncated; it is in 0..255 and
\* it is 0 for identical frames.
RECURSIVE SadUpTo(_, _, _)
SadUpTo(a, b, k) ==
    IF k = 0 THEN 0
    ELSE SadUpTo(a, b, k - 1)
           + (IF a[k] >= b[k] THEN a[k] - b[k] ELSE b[k] - a[k])
Sad(a, b) == SadUpTo(a, b, Len(a))
C12_Score ==
    \A f \in 1..Len(scores) :
       LET a == stream[f + 1]
           b == stream[f]
       IN /\ Len(a) = Len(b)
          /\ scores[f] * Len(a) <= Sad(a, b)
          /\ Sad(a, b) < (scores[f] + 1) * Len(a)
          /\ scores[f] \in 0..255
          /\ (a = b => scores[f] = 0)
C12_Witness ==
    /\ Len(scores) >= 3
    /\ scores[1] * numPixels < Sad(stream[2], stream[1])
    /\ stream[3] = stream[2]
    /\ scores[3] = 255

\* C13: image export never affects detection: the markers, the reported
\* lines and the exit code are determined by the frame stream, the threshold
\* and the report options alone, whether or not images are saved and whether
\* or not writes fail; a failed write never aborts the run.
StreamScore(f) == Sad(stream[f + 1], stream[f]) \div Len(stream[1])
StreamCut(f) ==
    /\ StreamScore(f) > threshold
    /\ Abs(StreamScore(f) - (IF f = 1 THEN 0 ELSE StreamScore(f - 1)))
         > threshold
RECURSIVE StreamCuts(_)
StreamCuts(n) ==
    IF n = 0 THEN <<>>
    ELSE IF StreamCut(n) THEN Append(StreamCuts(n - 1), n)
         ELSE StreamCuts(n - 1)
StreamMarkers ==
    <<0>> \o StreamCuts(Len(stream) - 1)
      \o (IF Scanned THEN <<Len(stream) - 1>> ELSE <<>>)
StreamOutput ==
    LET m == StreamMarkers
        kept == SurvivingPairs(m, minDuration, i)
    IN [j \in 1..Len(kept) |->
          IF ffmpeg
          THEN FfmpegLine(inputFile, m[kept[j]], m[kept[j] + 1], fps, j)
          ELSE PlainLine(j, m[kept[j]], m[kept[j] + 1])]
C13_ExportIndependent ==
    stream # <<>>
      => /\ markers = StreamMarkers
         /\ (~Scanned => output = <<>>)
         /\ (Scanned /\ (output # <<>> \/ i > 1) => output = StreamOutput)
         /\ exitCode = (IF pc = "done" THEN 0 ELSE -1)
         /\ (~saveImages => exports = <<>> /\ lost = 0)
C13_Witness ==
    /\ pc = "done"
    /\ saveImages
    /\ lost >= 1
    /\ Len(exports) >= 4
    /\ Len(markers) >= 3
    /\ output # <<>>

\* C14: for an input name with a '.', the output name is the input name with
\* "-N" inserted immediately before its last '.'; clip.mp4 with segment 3
\* gives clip-3.mp4.
IsDigit(c) == \E d \in 0..9 : Digit[d + 1] = c
C14_SegmentFile ==
    output # <<>>
      => LET r == output[1]
             p == LastPos(inputFile, ".")
             d == Len(r) - Len(inputFile) - 1
         IN /\ d >= 1
            /\ SubSeq(r, 1, p - 1) = SubSeq(inputFile, 1, p - 1)
            /\ r[p] = "-"
            /\ \A k \in (p + 1)..(p + d) : IsDigit(r[k])
            /\ r[p + 1] # "0"
            /\ NumVal(SubSeq(r, p + 1, p + d)) = segment
            /\ SubSeq(r, p + d + 1, Len(r))
                 = SubSeq(inputFile, p, Len(inputFile))
            /\ (inputFile = ClipMp4 /\ segment = 3)
                 => r = <<"c", "l", "i", "p", "-", "3", ".", "m", "p", "4">>
C14_Witness ==
    /\ output # <<>>
    /\ inputFile = <<"a", ".", "b", ".", "c">>
    /\ segment >= 10

\* C15: the extraction window, which starts at seek + offset seconds and
\* lasts the duration timecode, reaches at least the segment's end time
\* end / fps.
C15_WindowCoversEnd ==
    tsLine # <<>>
      => LET from == TcValue(tsLine[1].ssIn) + TcValue(tsLine[1].ssOut)
             until == from + TcValue(tsLine[1].t)
         IN until * tsFps[1] >= tsEnd * tsFps[2]

\* C16: with saveImages on, a scan of N >= 2 frames exports 'in' for frame 0,
\* then for each detected cut f, in order, 'out' for frame f - 1 and 'in' for
\* frame f, and finally 'out' for frame N - 1; the exports alternate in/out
\* and every 'in' at frame a is followed by an 'out' at a frame b >= a. With
\* saveImages off nothing is exported.
Exported(f, suffix) == [frame |-> f, suffix |-> suffix, image |-> stream[f + 1]]
RECURSIVE CutImages(_)
CutImages(cuts) ==
    IF cuts = <<>> THEN <<>>
    ELSE <<Exported(Head(cuts) - 1, Out), Exported(Head(cuts), In)>>
           \o CutImages(Tail(cuts))
StreamExports ==
    <<Exported(0, In)>> \o CutImages(StreamCuts(Len(stream) - 1))
      \o <<Exported(Len(stream) - 1, Out)>>
C16_ExportSequence ==
    (Scanned /\ Len(stream) >= 2)
      => IF saveImages
         THEN /\ [k \in 1..Len(exports) |->
                    [frame |-> exports[k].frame, suffix |-> exports[k].suffix,
                     image |-> exports[k].image]] = StreamExports
              /\ \A k \in 1..Len(exports) :
                   /\ exports[k].name =
                        PadTo(DigitsOf(exports[k].frame), 8) \o <<"-">>
                          \o exports[k].suffix \o <<".", "j", "p", "g">>
                   /\ exports[k].suffix = (IF k % 2 = 1 THEN In ELSE Out)
              /\ Len(exports) % 2 = 0
              /\ \A k \in 1..(Len(exports) \div 2) :
                   exports[2 * k - 1].frame <= exports[2 * k].frame
         ELSE exports = <<>>
C16_Witness ==
    /\ pc = "done"
    /\ saveImages
    /\ Len(stream) = 4
    /\ Len(exports) = 6
    /\ exports[5].frame = 3
    /\ exports[6].frame = 3
    /\ exports[2].image # exports[3].image

\* C17: the scan of a finite stream terminates; until then the frames
\* 1..N-1 are scored once each, in increasing order, each against its
\* immediate predecessor, the frame counter being the index of the frame
\* scored; the closing marker is appended only once the last frame is scored.
C17_InOrder ==
    (pc \in {"scan", "report", "done"} /\ stream # <<>>)
      => /\ frame = Len(stream)
         /\ Len(scores) = Len(stream) - 1
         /\ previous = stream[Len(stream)]
C17_ScoreStep ==
    (scores' # scores)
      => /\ pc = "scan" /\ pc' = "scan"
         /\ Len(stream') = Len(stream) + 1
         /\ SubSeq(stream', 1, Len(stream)) = stream
         /\ scores' = Append(scores,
              Sad(stream'[frame + 1], stream[frame]) \div Len(stream[1]))
         /\ frame' = frame + 1
C17_ScanEnds ==
    /\ (pc \in {"report", "done"}
          => UNCHANGED <<stream, scores, markers, frame>>)
    /\ (pc = "scan" /\ pc' = "report")
          => /\ markers' = Append(markers, Len(scores))
             /\ UNCHANGED <<stream, scores>>
C17_ScanTerminates ==
    /\ []C17_InOrder
    /\ [][C17_ScoreStep]_vars
    /\ [][C17_ScanEnds]_vars
    /\ <>(pc = "done")
C17_Witness ==
    /\ pc = "done"
    /\ exitCode = 0
    /\ Len(stream) = 4
    /\ Len(scores) = 3
    /\ Len(markers) = 2

\* C18: when minDuration >= 1 every reported segment has
\* 0 <= start < end <= N - 1, also when the final frame is a detected cut and
\* the closing marker repeats its index: no zero-length segment is reported.
ProperPair(k) ==
    /\ 0 <= markers[k]
    /\ markers[k] < markers[k + 1]
    /\ markers[k + 1] <= Len(stream) - 1
C18_PositiveLength ==
    (Scanned /\ minDuration >= 1)
      => \A j \in 1..Len(output) :
           IF ffmpeg
           THEN \E k \in 1..(Len(markers) - 1) :
                  /\ ProperPair(k)
                  /\ output[j] = FfmpegLine(inputFile, markers[k],
                                            markers[k + 1], fps, j)
           ELSE /\ 0 <= output[j].start
                /\ output[j].start < output[j].end
                /\ output[j].end <= Len(stream) - 1
                /\ \E k \in 1..(Len(markers) - 1) :
                     /\ ProperPair(k)
                     /\ output[j].start = markers[k]
                     /\ output[j].end = markers[k + 1]
C18_Witness ==
    /\ pc = "done"
    /\ minDuration = 1
    /\ ~ffmpeg
    /\ Len(markers) = 4
    /\ markers[3] = markers[4]
    /\ Len(output) = 2

\* C19: the candidate segments, the adjacent marker pairs, tile the stream:
\* each starts where the previous one ends, the first starts at 0, the last
\* ends at N - 1, none has a negative length and the lengths sum to N - 1;
\* the reported segments do not overlap and their starts strictly increase.
PairLengths == [k \in 1..(Len(markers) - 1) |-> markers[k + 1] - markers[k]]
C19_Tiling ==
    Scanned
      => /\ markers[1] = 0
         /\ markers[Len(markers)] = Len(stream) - 1
         /\ \A k \in 1..Len(PairLengths) : PairLengths[k] >= 0
         /\ SumSeq(PairLengths) = Len(stream) - 1
         /\ LET kept == SurvivingPairs(markers, minDuration, i)
            IN /\ Len(output) = Len(kept)
               /\ \A j \in 1..(Len(kept) - 1) :
                    /\ markers[kept[j] + 1] <= markers[kept[j + 1]]
                    /\ markers[kept[j]] < markers[kept[j + 1]]
         /\ ~ffmpeg
              => \A j \in 1..(Len(output) - 1) :
                   /\ output[j].end <= output[j + 1].start
                   /\ output[j].start < output[j + 1].start
                   /\ (Len(output) = i - 1
                         => output[j].end = output[j + 1].start)
C19_Witness ==
    /\ pc = "done"
    /\ ~ffmpeg
    /\ minDuration = -1
    /\ Len(markers) = 4
    /\ markers[3] = markers[4]
    /\ Len(output) = 3

====
